---- MODULE Spec2Model ----
(***************************************************************************)
(* Model of Eigen/src/Array/VectorwiseOp.h: the partial-reduction          *)
(* expression PartialReduxExpr and the axis adaptor VectorwiseOp           *)
(* (MatrixBase::colwise() / MatrixBase::rowwise()).                        *)
(*                                                                         *)
(* A dense expression is represented by what a consumer can observe of it: *)
(* its rows(), its cols() and its coeff(i,j), with 0-based indices as in   *)
(* the source.  The scalar type is int; the values used stay far from the  *)
(* limits of int, so no arithmetic in the model overflows.                 *)
(***************************************************************************)
EXTENDS Integers, Sequences, FiniteSets, TLC

\* Largest number of rows and of columns of the matrices drawn in Init.
MaxDim == 2
\* Largest number of coefficients of the matrices drawn in Init.
MaxSize == 4
\* Largest replication factor passed to replicate().
MaxFactor == 2
\* Largest number of broadcast assignments in one run.
MaxAssign == 2
\* Largest number of broadcast assignments while a PartialReduxExpr is held.
MaxMutations == 1

\* The coefficients drawn in Init (a zero and a non-zero value).
Scalars == {0, 2}

\* The two values of the Direction template parameter.
Vertical == "Vertical"
Horizontal == "Horizontal"
Directions == {Vertical, Horizontal}

(***************************************************************************)
(* The base expression abstraction (MatrixBase and its helpers).           *)
(***************************************************************************)

\* All plain matrices of the given extents over the coefficient set S.
MatricesOf(r, c, S) ==
    { [rows |-> r, cols |-> c, coeff |-> f] :
        f \in [(0..(r - 1)) \X (0..(c - 1)) -> S] }

At(m, i, j) == m.coeff[<<i, j>>]

SameShape(a, b) == a.rows = b.rows /\ a.cols = b.cols

\* MatrixBase::col(j): the j-th column as a rows x 1 expression.
Col(m, j) ==
    [rows |-> m.rows, cols |-> 1,
     coeff |-> [p \in (0..(m.rows - 1)) \X {0} |-> m.coeff[<<p[1], j>>]]]

\* MatrixBase::row(i): the i-th row as a 1 x cols expression.
Row(m, i) ==
    [rows |-> 1, cols |-> m.cols,
     coeff |-> [p \in {0} \X (0..(m.cols - 1)) |-> m.coeff[<<i, p[2]>>]]]

\* Sum of f over a finite set of index pairs.
RECURSIVE FoldSum(_, _)
FoldSum(f, D) ==
    IF D = {} THEN 0
    ELSE LET p == CHOOSE q \in D : TRUE
         IN  f[p] + FoldSum(f, D \ {p})

\* MatrixBase::sum(): the sum of all the coefficients.
MatSum(m) == FoldSum(m.coeff, DOMAIN m.coeff)

\* MatrixBase::count(): the number of coefficients that convert to true.
MatCount(m) == Cardinality({p \in DOMAIN m.coeff : m.coeff[p] # 0})

\* Product of f over a finite set of index pairs.
RECURSIVE FoldProd(_, _)
FoldProd(f, D) ==
    IF D = {} THEN 1
    ELSE LET p == CHOOSE q \in D : TRUE
         IN  f[p] * FoldProd(f, D \ {p})

\* MatrixBase::prod(): the product of all the coefficients.
MatProd(m) == FoldProd(m.coeff, DOMAIN m.coeff)

\* MatrixBase::minCoeff(), maxCoeff(): the least and the greatest coefficient
\* of an expression that has at least one coefficient.
MatMinCoeff(m) ==
    CHOOSE x \in {m.coeff[p] : p \in DOMAIN m.coeff} :
        \A q \in DOMAIN m.coeff : x <= m.coeff[q]

MatMaxCoeff(m) ==
    CHOOSE x \in {m.coeff[p] : p \in DOMAIN m.coeff} :
        \A q \in DOMAIN m.coeff : x >= m.coeff[q]

\* The precondition of a member: minCoeff() and maxCoeff() start from the
\* first coefficient, so the expression must have one.
MemberDefined(member, m) ==
    member \in {"minCoeff", "maxCoeff"} => m.rows * m.cols > 0


\* Replicate(matrix, rowFactor, colFactor): the tiling of an expression.
Replicate(m, rowFactor, colFactor) ==
    [rows |-> m.rows * rowFactor, cols |-> m.cols * colFactor,
     coeff |-> [p \in (0..(m.rows * rowFactor - 1)) \X (0..(m.cols * colFactor - 1))
                  |-> m.coeff[<<p[1] % m.rows, p[2] % m.cols>>]]]

\* Each sub-vector overwritten by its last coefficient instead of reversed.
Reverse_lastOnly(m, dir) ==
    [rows |-> m.rows, cols |-> m.cols,
     coeff |-> [p \in DOMAIN m.coeff
                  |-> IF dir = Vertical
                      THEN m.coeff[<<m.rows - 1, p[2]>>]
                      ELSE m.coeff[<<p[1], m.cols - 1>>]]]

\* Reverse<ExpressionType, Direction>: each column (Vertical) or each row
\* (Horizontal) of the expression in reverse order.
Reverse(m, dir) ==
    [rows |-> m.rows, cols |-> m.cols,
     coeff |-> [p \in DOMAIN m.coeff
                  |-> IF dir = Vertical
                      THEN m.coeff[<<m.rows - 1 - p[1], p[2]>>]
                      ELSE m.coeff[<<p[1], m.cols - 1 - p[2]>>]]]

\* The scalar functors of the assignments and of the binary expressions.
ScalarOp(op, a, b) ==
    CASE op = "="  -> b
      [] op = "+=" -> a + b
      [] op = "-=" -> a - b
      [] op = "+"  -> a + b
      [] op = "-"  -> a - b

\* CwiseBinaryOp(lhs, rhs): its constructor requires equal extents.
CwiseBinaryOpValid(lhs, rhs) == SameShape(lhs, rhs)

CwiseBinaryOp(op, lhs, rhs) ==
    [rows |-> lhs.rows, cols |-> lhs.cols,
     coeff |-> [p \in DOMAIN lhs.coeff |-> ScalarOp(op, lhs.coeff[p], rhs.coeff[p])]]

(***************************************************************************)
(* PartialReduxExpr<MatrixType, MemberOp, Direction>.                      *)
(***************************************************************************)

\* The member functors generated by EIGEN_MEMBER_FUNCTOR: operator() calls the
\* member of the same name on the sub-vector it is given.
MemberOps == {"sum", "count", "minCoeff", "maxCoeff", "prod"}

\* A functor generated with the wrong member: count bound to sum().
MemberFunctor_wrongMember(member, mat) ==
    CASE member = "sum"      -> MatSum(mat)
      [] member = "count"    -> MatSum(mat)
      [] member = "minCoeff" -> MatMinCoeff(mat)
      [] member = "maxCoeff" -> MatMaxCoeff(mat)
      [] member = "prod"     -> MatProd(mat)

\* Functors generated with the wrong member: maxCoeff bound to minCoeff(),
\* prod bound to sum().
MemberFunctor_wrongExtremum(member, mat) ==
    CASE member = "sum"      -> MatSum(mat)
      [] member = "count"    -> MatCount(mat)
      [] member = "minCoeff" -> MatMinCoeff(mat)
      [] member = "maxCoeff" -> MatMinCoeff(mat)
      [] member = "prod"     -> MatSum(mat)

MemberFunctor(member, mat) ==
    CASE member = "sum"      -> MatSum(mat)
      [] member = "count"    -> MatCount(mat)
      [] member = "minCoeff" -> MatMinCoeff(mat)
      [] member = "maxCoeff" -> MatMaxCoeff(mat)
      [] member = "prod"     -> MatProd(mat)

PartialReduxExpr_rows(m, dir) == IF dir = Vertical THEN 1 ELSE m.rows

PartialReduxExpr_cols(m, dir) == IF dir = Horizontal THEN 1 ELSE m.cols

\* coeff(int i, int j) with the two indices confused.
PartialReduxExpr_coeff_swapped(m, member, dir, i, j) ==
    IF dir = Vertical
    THEN MemberFunctor(member, Col(m, i))
    ELSE MemberFunctor(member, Row(m, j))

\* coeff(int i, int j)
PartialReduxExpr_coeff(m, member, dir, i, j) ==
    IF dir = Vertical
    THEN MemberFunctor(member, Col(m, j))
    ELSE MemberFunctor(member, Row(m, i))

\* coeff(int index)
PartialReduxExpr_coeffIndex(m, member, dir, index) ==
    IF dir = Vertical
    THEN MemberFunctor(member, Col(m, index))
    ELSE MemberFunctor(member, Row(m, index))

\* Every coefficient of the expression can be evaluated: the functor's
\* precondition holds on every column (Vertical) or row (Horizontal).
PartialReduxExpr_defined(m, member, dir) ==
    IF dir = Vertical
    THEN \A k \in 0..(m.cols - 1) : MemberDefined(member, Col(m, k))
    ELSE \A k \in 0..(m.rows - 1) : MemberDefined(member, Row(m, k))

\* The expression as a consumer evaluates it, coefficient by coefficient.
PartialReduxExpr(m, member, dir) ==
    [rows |-> PartialReduxExpr_rows(m, dir),
     cols |-> PartialReduxExpr_cols(m, dir),
     coeff |-> [p \in (0..(PartialReduxExpr_rows(m, dir) - 1))
                       \X (0..(PartialReduxExpr_cols(m, dir) - 1))
                  |-> PartialReduxExpr_coeff(m, member, dir, p[1], p[2])]]

(***************************************************************************)
(* VectorwiseOp<ExpressionType, Direction>.                                *)
(***************************************************************************)

\* subVectors(): the number of sub-vectors in the direction.
subVectors(m, dir) == IF dir = Vertical THEN m.cols ELSE m.rows

\* subVector(i): the i-th column (Vertical) or row (Horizontal), a view.
subVector(m, dir, i) == IF dir = Vertical THEN Col(m, i) ELSE Row(m, i)

\* extendedTo(other): other replicated to the size of the adaptor's matrix.
extendedTo(m, dir, v) ==
    Replicate(v,
              IF dir = Vertical THEN 1 ELSE m.rows,
              IF dir = Horizontal THEN 1 ELSE m.cols)

\* reverse()
VectorwiseOp_reverse(m, dir) == Reverse(m, dir)

\* replicate(factor) with the factor applied to the other extent.
VectorwiseOp_replicate_otherAxis(m, dir, factor) ==
    Replicate(m,
              IF dir = Vertical THEN 1 ELSE factor,
              IF dir = Horizontal THEN 1 ELSE factor)

\* replicate(factor)
VectorwiseOp_replicate(m, dir, factor) ==
    Replicate(m,
              IF dir = Vertical THEN factor ELSE 1,
              IF dir = Horizontal THEN factor ELSE 1)

\* operator+ and operator-: m_matrix (+|-) extendedTo(other).
VectorwiseOp_binaryValid(m, dir, v) == CwiseBinaryOpValid(m, extendedTo(m, dir, v))

\* operator- written with the functor of operator+.
VectorwiseOp_binary_sumOnly(op, m, dir, v) == CwiseBinaryOp("+", m, extendedTo(m, dir, v))

VectorwiseOp_binary(op, m, dir, v) == CwiseBinaryOp(op, m, extendedTo(m, dir, v))

\* subVector(j) (=|+=|-=) value: the assignment through the view requires
\* the value to have the view's extents and writes each coefficient of the
\* view into the matrix.
SubVectorAssignValid(m, dir, i, v) == SameShape(subVector(m, dir, i), v)

SubVectorAssign(op, m, dir, i, v) ==
    [rows |-> m.rows, cols |-> m.cols,
     coeff |-> [p \in DOMAIN m.coeff
                  |-> IF dir = Vertical
                      THEN IF p[2] = i
                           THEN ScalarOp(op, m.coeff[p], v.coeff[<<p[1], 0>>])
                           ELSE m.coeff[p]
                      ELSE IF p[1] = i
                           THEN ScalarOp(op, m.coeff[p], v.coeff[<<0, p[2]>>])
                           ELSE m.coeff[p]]]


(***************************************************************************)
(* The state: a matrix, a broadcast operand, and a caller that uses the   *)
(* adaptors of the matrix.                                                 *)
(***************************************************************************)
VARIABLES
    M,        \* the matrix the adaptors wrap (m_matrix of VectorwiseOp)
    other,    \* the operand: a plain vector, or a column or row of M
    pc,       \* "idle", "loop" (inside a broadcast assignment) or "aborted"
    j,        \* the loop variable of the broadcast assignment
    cur,      \* the broadcast assignment running or last run: [dir, op]
    M0,       \* M when that assignment was entered
    prev,     \* the broadcast assignment run before cur
    Mprev,    \* M when prev was entered
    nAssign,  \* the number of broadcast assignments entered
    visited,  \* the sub-vector indices assigned by cur so far, in order
    redux,    \* the PartialReduxExpr the caller holds: [member, dir]
    rd,       \* the scalar returned by the last coefficient read
    res,      \* the matrix the last expression evaluated to
    call      \* the last call: [name, dir, dir0, a, b]

vars == <<M, other, pc, j, cur, M0, prev, Mprev, nAssign, visited, redux, rd, res, call>>

NoAssign == [dir |-> "none", op |-> "none"]
NoRedux == [member |-> "none", dir |-> "none"]
Empty == [rows |-> 0, cols |-> 0, coeff |-> << >>]
Call(name, dir, dir0, a, b) == [name |-> name, dir |-> dir, dir0 |-> dir0, a |-> a, b |-> b]

\* The matrices of at most MaxDim rows and columns and at most MaxSize
\* coefficients, empty ones included.
Shapes == { s \in (0..MaxDim) \X (0..MaxDim) : s[1] * s[2] <= MaxSize }

Matrices == UNION { MatricesOf(s[1], s[2], Scalars) : s \in Shapes }

\* The plain vectors: EIGEN_STATIC_ASSERT_VECTOR_ONLY admits an operand only
\* when one of its extents is 1.
Vectors == { m \in Matrices : m.rows = 1 \/ m.cols = 1 }

\* The operands of a matrix m: the plain vectors, and the columns and rows of m.
Operands(m) ==
    { [kind |-> "plain", val |-> v, idx |-> 0] : v \in Vectors }
    \cup { [kind |-> "col", val |-> Empty, idx |-> k] : k \in 0..(m.cols - 1) }
    \cup { [kind |-> "row", val |-> Empty, idx |-> k] : k \in 0..(m.rows - 1) }

\* The operand evaluated once, when the operator is entered: a view reads
\* the matrix as it was then.
OperandValue_evaluatedOnce(m, o) ==
    CASE o.kind = "plain" -> o.val
      [] o.kind = "col"   -> Col(M0, o.idx)
      [] o.kind = "row"   -> Row(M0, o.idx)

\* The operand as the expression it is, read from the matrix as it is now.
OperandValue(m, o) ==
    CASE o.kind = "plain" -> o.val
      [] o.kind = "col"   -> Col(m, o.idx)
      [] o.kind = "row"   -> Row(m, o.idx)

Init ==
    /\ M \in Matrices
    /\ other \in Operands(M)
    /\ pc = "idle"
    /\ j = 0
    /\ cur = NoAssign
    /\ M0 = M
    /\ prev = NoAssign
    /\ Mprev = M
    /\ nAssign = 0
    /\ visited = <<>>
    /\ redux = NoRedux
    /\ rd = 0
    /\ res = Empty
    /\ call = Call("none", "none", "none", 0, 0)

(***************************************************************************)
(* Broadcast assignment: operator=, operator+= and operator-=.             *)
(***************************************************************************)
AssignOps == {"=", "+=", "-="}

\* The compound assignment in the loop body of each operator: operator=
\* assigns, operator+= adds, operator-= subtracts.  First the body of
\* operator-= as a copy of that of operator+=.
LoopBodyOp_copied(op) == IF op = "-=" THEN "+=" ELSE op

LoopBodyOp(op) == op

\* The loop started at j = 1.
AssignBegin_fromOne(dir, op) ==
    /\ pc = "idle"
    /\ nAssign < MaxAssign
    /\ pc' = "loop"
    /\ j' = 1
    /\ cur' = [dir |-> dir, op |-> op]
    /\ M0' = M
    /\ prev' = cur
    /\ Mprev' = M0
    /\ nAssign' = nAssign + 1
    /\ visited' = <<>>
    /\ rd' = 0
    /\ call' = Call(op, dir, "none", 0, 0)
    /\ UNCHANGED <<M, other, redux, res>>

\* The call enters the operator: j = 0.
AssignBegin(dir, op) ==
    /\ pc = "idle"
    /\ nAssign < MaxAssign
    /\ pc' = "loop"
    /\ j' = 0
    /\ cur' = [dir |-> dir, op |-> op]
    /\ M0' = M
    /\ prev' = cur
    /\ Mprev' = M0
    /\ nAssign' = nAssign + 1
    /\ visited' = <<>>
    /\ rd' = 0
    /\ call' = Call(op, dir, "none", 0, 0)
    /\ UNCHANGED <<M, other, redux, res>>

\* One iteration of for(int j=0; j<subVectors(); ++j) subVector(j) op other.
AssignIter ==
    /\ pc = "loop"
    /\ j < subVectors(M, cur.dir)
    /\ IF SubVectorAssignValid(M, cur.dir, j, OperandValue(M, other))
       THEN /\ M' = SubVectorAssign(LoopBodyOp(cur.op), M, cur.dir, j, OperandValue(M, other))
            /\ j' = j + 1
            /\ visited' = Append(visited, j)
            /\ pc' = "loop"
       ELSE /\ pc' = "aborted"
            /\ UNCHANGED <<M, j, visited>>
    /\ UNCHANGED <<other, cur, M0, prev, Mprev, nAssign, redux, rd, res, call>>

\* The loop is over: return const_cast<ExpressionType&>(m_matrix).
AssignReturn ==
    /\ pc = "loop"
    /\ ~(j < subVectors(M, cur.dir))
    /\ pc' = "idle"
    /\ call' = Call("return", cur.dir, "m_matrix", 0, 0)
    /\ UNCHANGED <<M, other, j, cur, M0, prev, Mprev, nAssign, visited, redux, rd, res>>

(***************************************************************************)
(* A PartialReduxExpr held by the caller and read coefficient by           *)
(* coefficient.                                                            *)
(***************************************************************************)

\* m_matrix of PartialReduxExpr as a copy that misses the last assignment.
PartialReduxExpr_m_matrix_stale == M0

\* m_matrix of PartialReduxExpr is nested by reference: it is the matrix.
PartialReduxExpr_m_matrix == M

\* sum(), count(), minCoeff(), maxCoeff(), prod(): the accessor returns
\* PartialReduxExpr(_expression()).
MakeRedux(dir, member) ==
    /\ pc = "idle"
    /\ redux = NoRedux
    /\ redux' = [member |-> member, dir |-> dir]
    /\ rd' = 0
    /\ call' = Call("PartialReduxExpr", dir, member, 0, 0)
    /\ UNCHANGED <<M, other, pc, j, cur, M0, prev, Mprev, nAssign, visited, res>>

ReadCoeff(i, k) ==
    /\ pc = "idle"
    /\ redux # NoRedux
    /\ i < PartialReduxExpr_rows(PartialReduxExpr_m_matrix, redux.dir)
    /\ k < PartialReduxExpr_cols(PartialReduxExpr_m_matrix, redux.dir)
    /\ call' = Call("coeff", redux.dir, "none", i, k)
    /\ IF PartialReduxExpr_defined(PartialReduxExpr_m_matrix, redux.member, redux.dir)
       THEN /\ rd' = PartialReduxExpr_coeff(PartialReduxExpr_m_matrix, redux.member,
                                            redux.dir, i, k)
            /\ pc' = pc
       ELSE /\ rd' = 0
            /\ pc' = "aborted"
    /\ UNCHANGED <<M, other, j, cur, M0, prev, Mprev, nAssign, visited, redux, res>>

ReadCoeffIndex(index) ==
    /\ pc = "idle"
    /\ redux # NoRedux
    /\ index < PartialReduxExpr_rows(PartialReduxExpr_m_matrix, redux.dir)
               * PartialReduxExpr_cols(PartialReduxExpr_m_matrix, redux.dir)
    /\ call' = Call("coeffIndex", redux.dir, "none", index, 0)
    /\ IF PartialReduxExpr_defined(PartialReduxExpr_m_matrix, redux.member, redux.dir)
       THEN /\ rd' = PartialReduxExpr_coeffIndex(PartialReduxExpr_m_matrix, redux.member,
                                                 redux.dir, index)
            /\ pc' = pc
       ELSE /\ rd' = 0
            /\ pc' = "aborted"
    /\ UNCHANGED <<M, other, j, cur, M0, prev, Mprev, nAssign, visited, redux, res>>

Next ==
    \/ \E dir \in Directions, op \in AssignOps : AssignBegin(dir, op)
    \/ AssignIter
    \/ AssignReturn

Spec == Init /\ [][Next]_vars

\* A caller that builds a PartialReduxExpr, then mutates the matrix by
\* broadcast assignments and reads coefficients in between.
NextRedux ==
    \/ \E dir \in Directions, member \in MemberOps : MakeRedux(dir, member)
    \/ \E i \in 0..MaxDim, k \in 0..MaxDim : ReadCoeff(i, k)
    \/ \E index \in 0..MaxDim : ReadCoeffIndex(index)
    \/ \E dir \in Directions, op \in AssignOps :
          redux # NoRedux /\ nAssign < MaxMutations /\ AssignBegin(dir, op)
    \/ AssignIter
    \/ AssignReturn

ReduxSpec == Init /\ [][NextRedux]_vars

(***************************************************************************)
(* Lazy expressions built from the adaptor and evaluated by the caller.    *)
(***************************************************************************)
BinaryOps == {"+", "-"}

EvalFrame == UNCHANGED <<M, other, j, cur, M0, prev, Mprev, nAssign, visited, redux, rd>>

\* M.colwise().sum() and the like, evaluated into a plain object.
EvalRedux(dir, member) ==
    /\ pc = "idle"
    /\ call' = Call(member, dir, "none", 0, 0)
    /\ IF PartialReduxExpr_defined(M, member, dir)
       THEN /\ res' = PartialReduxExpr(M, member, dir)
            /\ pc' = pc
       ELSE /\ pc' = "aborted"
            /\ res' = Empty
    /\ EvalFrame

\* reverse() that reverses the matrix in place.
EvalReverse_inPlace(dir) ==
    /\ pc = "idle"
    /\ res' = VectorwiseOp_reverse(M, dir)
    /\ M' = VectorwiseOp_reverse(M, dir)
    /\ call' = Call("reverse", dir, "none", 0, 0)
    /\ pc' = pc
    /\ UNCHANGED <<other, j, cur, M0, prev, Mprev, nAssign, visited, redux, rd>>

EvalReverse(dir) ==
    /\ pc = "idle"
    /\ res' = VectorwiseOp_reverse(M, dir)
    /\ call' = Call("reverse", dir, "none", 0, 0)
    /\ pc' = pc
    /\ EvalFrame

\* The adaptor of the result of reverse(), reversed again.
EvalReverseAgain(dir) ==
    /\ pc = "idle"
    /\ call.name = "reverse"
    /\ res' = VectorwiseOp_reverse(res, dir)
    /\ call' = Call("reverse.reverse", dir, call.dir, 0, 0)
    /\ pc' = pc
    /\ EvalFrame

EvalReplicate(dir, factor) ==
    /\ pc = "idle"
    /\ res' = VectorwiseOp_replicate(M, dir, factor)
    /\ call' = Call("replicate", dir, "none", factor, 0)
    /\ pc' = pc
    /\ EvalFrame

EvalBinary(op, dir) ==
    /\ pc = "idle"
    /\ call' = Call(op, dir, "none", 0, 0)
    /\ IF VectorwiseOp_binaryValid(M, dir, OperandValue(M, other))
       THEN /\ res' = VectorwiseOp_binary(op, M, dir, OperandValue(M, other))
            /\ pc' = pc
       ELSE /\ pc' = "aborted"
            /\ res' = Empty
    /\ EvalFrame

NextExpr ==
    \/ \E dir \in Directions, member \in MemberOps : EvalRedux(dir, member)
    \/ \E dir \in Directions : EvalReverse(dir)
    \/ \E dir \in Directions : EvalReverseAgain(dir)
    \/ \E dir \in Directions, factor \in 1..MaxFactor : EvalReplicate(dir, factor)
    \/ \E dir \in Directions, op \in BinaryOps : EvalBinary(op, dir)

ExprSpec == Init /\ [][NextExpr]_vars


(***************************************************************************)
(* Properties.                                                             *)
(***************************************************************************)

\* The sum of the first n coefficients of column k, and of row k, of m.
RECURSIVE ColumnSum(_, _, _)
ColumnSum(m, k, n) == IF n = 0 THEN 0 ELSE At(m, n - 1, k) + ColumnSum(m, k, n - 1)

RECURSIVE RowSum(_, _, _)
RowSum(m, k, n) == IF n = 0 THEN 0 ELSE At(m, k, n - 1) + RowSum(m, k, n - 1)

\* The number of non-zero coefficients among the first n of column k, of row k.
RECURSIVE ColumnCount(_, _, _)
ColumnCount(m, k, n) ==
    IF n = 0 THEN 0
    ELSE (IF At(m, n - 1, k) # 0 THEN 1 ELSE 0) + ColumnCount(m, k, n - 1)

RECURSIVE RowCount(_, _, _)
RowCount(m, k, n) ==
    IF n = 0 THEN 0
    ELSE (IF At(m, k, n - 1) # 0 THEN 1 ELSE 0) + RowCount(m, k, n - 1)

\* C1: the sum partial reduction is 1 x cols (colwise) or rows x 1 (rowwise),
\* and its coefficient k is the sum of the elements of column k (colwise) or
\* of row k (rowwise) of the matrix.
C1_SumOfSubVectors ==
    call.name = "sum" =>
        IF call.dir = Vertical
        THEN /\ res.rows = 1
             /\ res.cols = M.cols
             /\ \A k \in 0..(M.cols - 1) : At(res, 0, k) = ColumnSum(M, k, M.rows)
        ELSE /\ res.rows = M.rows
             /\ res.cols = 1
             /\ \A k \in 0..(M.rows - 1) : At(res, k, 0) = RowSum(M, k, M.cols)

\* A colwise sum of a 2 x 2 matrix whose column sums differ from its row sums.
C1_Witness ==
    /\ call.name = "sum"
    /\ call.dir = Vertical
    /\ M.rows = 2
    /\ M.cols = 2
    /\ At(res, 0, 0) = 4
    /\ At(res, 0, 1) = 0

\* C10: coefficient k of the count partial reduction is the number of
\* non-zero elements of sub-vector k, a natural number of at most the
\* sub-vector's length.
C10_CountOfSubVectors ==
    call.name = "count" =>
        IF call.dir = Vertical
        THEN /\ res.rows = 1
             /\ res.cols = M.cols
             /\ \A k \in 0..(M.cols - 1) :
                    /\ At(res, 0, k) = ColumnCount(M, k, M.rows)
                    /\ At(res, 0, k) \in 0..M.rows
        ELSE /\ res.rows = M.rows
             /\ res.cols = 1
             /\ \A k \in 0..(M.rows - 1) :
                    /\ At(res, k, 0) = RowCount(M, k, M.cols)
                    /\ At(res, k, 0) \in 0..M.cols

\* A rowwise count of a 2 x 2 matrix with one full row and one row of zeros.
C10_Witness ==
    /\ call.name = "count"
    /\ call.dir = Horizontal
    /\ M.rows = 2
    /\ M.cols = 2
    /\ At(res, 0, 0) = 2
    /\ At(res, 1, 0) = 0


\* The extent an adaptor's reductions collapse (rows for colwise, columns
\* for rowwise) and the extent they keep.
CollapsedExtent(m, dir) == IF dir = Vertical THEN m.rows ELSE m.cols
KeptExtent(m, dir) == IF dir = Vertical THEN m.cols ELSE m.rows

\* C4 as stated: replicate(n) multiplies the extent of the non-reduced axis
\* by n and leaves the other extent unchanged.
C4_Original ==
    call.name = "replicate" =>
        /\ KeptExtent(res, call.dir) = call.a * KeptExtent(M, call.dir)
        /\ CollapsedExtent(res, call.dir) = CollapsedExtent(M, call.dir)

\* C4, amended: replicate(n) multiplies by n the extent of the axis the
\* adaptor's sub-vectors run along (rows for colwise, columns for rowwise),
\* leaves the other extent unchanged, and each of the n tiles equals the
\* original expression.
C4_ReplicateTiles ==
    call.name = "replicate" =>
        /\ CollapsedExtent(res, call.dir) = call.a * CollapsedExtent(M, call.dir)
        /\ KeptExtent(res, call.dir) = KeptExtent(M, call.dir)
        /\ \A t \in 0..(call.a - 1), i \in 0..(M.rows - 1), k \in 0..(M.cols - 1) :
              IF call.dir = Vertical
              THEN At(res, t * M.rows + i, k) = At(M, i, k)
              ELSE At(res, i, t * M.cols + k) = At(M, i, k)

\* A colwise replicate(2) of a 1 x 2 matrix with two different coefficients.
C4_Witness ==
    /\ call.name = "replicate"
    /\ call.dir = Vertical
    /\ call.a = 2
    /\ M.rows = 1
    /\ M.cols = 2
    /\ At(M, 0, 0) # At(M, 0, 1)
    /\ res.rows = 2

\* The shape of the adaptor's sub-vectors: rows x 1 or 1 x cols.
SubVectorShaped(m, dir, v) ==
    IF dir = Vertical
    THEN v.rows = m.rows /\ v.cols = 1
    ELSE v.rows = 1 /\ v.cols = m.cols

\* C8: the expression M.adaptor() + v (- v), once built, has M's extents
\* and its coefficient (i,j) is M(i,j) + v(i) (- v(i)) colwise and
\* M(i,j) + v(j) (- v(j)) rowwise.
C8_BroadcastBinary ==
    (call.name \in BinaryOps /\ pc = "idle") =>
        LET v == OperandValue(M, other)
        IN  /\ res.rows = M.rows
            /\ res.cols = M.cols
            /\ \A i \in 0..(M.rows - 1), k \in 0..(M.cols - 1) :
                  LET at == IF call.dir = Vertical THEN <<i, 0>> ELSE <<0, k>>
                  IN  /\ at \in DOMAIN v.coeff
                      /\ At(res, i, k) = IF call.name = "+"
                                         THEN At(M, i, k) + v.coeff[at]
                                         ELSE At(M, i, k) - v.coeff[at]

\* A colwise M - v on a 2 x 2 matrix with a plain v of two different
\* coefficients.
C8_Witness ==
    /\ call.name = "-"
    /\ pc = "idle"
    /\ call.dir = Vertical
    /\ other.kind = "plain"
    /\ M.rows = 2
    /\ M.cols = 2
    /\ At(other.val, 0, 0) # At(other.val, 1, 0)
    /\ res # M

\* C9: reversing along an axis the result of reversing along the same axis
\* yields the original matrix, extents and coefficients.
C9_ReverseTwice ==
    (call.name = "reverse.reverse" /\ call.dir = call.dir0) => res = M

\* A double colwise reverse of a matrix whose columns are not palindromes.
C9_Witness ==
    /\ call.name = "reverse.reverse"
    /\ call.dir = Vertical
    /\ call.dir0 = Vertical
    /\ M.rows = 2
    /\ M.cols = 2
    /\ At(M, 0, 0) # At(M, 1, 0)
    /\ At(M, 0, 1) = At(M, 1, 1)

\* C5: no reduction accessor, no evaluation of a PartialReduxExpr,
\* no reverse(), replicate(), operator+ or operator- changes an element or
\* an extent of the matrix or of the operand.
C5_Frame == [][M' = M /\ other' = other]_vars

\* An operator- has been evaluated to something other than the matrix.
C5_Witness ==
    /\ call.name = "-"
    /\ pc = "idle"
    /\ res # M
    /\ M.rows = 2


\* The number of coefficients of an expression.
Size(m) == m.rows * m.cols

\* m is m0 with the vector v combined by op into each of its sub-vectors.
BroadcastOf(op, m, m0, dir, v) ==
    /\ SameShape(m, m0)
    /\ \A i \in 0..(m0.rows - 1), k \in 0..(m0.cols - 1) :
          LET at == IF dir = Vertical THEN <<i, 0>> ELSE <<0, k>>
          IN  /\ at \in DOMAIN v.coeff
              /\ At(m, i, k) = CASE op = "="  -> v.coeff[at]
                                 [] op = "+=" -> At(m0, i, k) + v.coeff[at]
                                 [] op = "-=" -> At(m0, i, k) - v.coeff[at]

\* C2 as stated: adaptor += v with a vector v sized to the non-reduced axis
\* completes, and leaves every sub-vector equal to its original plus v.
C2_Original ==
    (/\ cur.op = "+="
     /\ other.kind = "plain"
     /\ Size(other.val) = KeptExtent(M, cur.dir))
    => /\ pc # "aborted"
       /\ call.name = "return" => BroadcastOf("+=", M, M0, cur.dir, other.val)

\* C2, amended: adaptor += v with a vector v of the shape of the adaptor's
\* sub-vectors (rows x 1 colwise, 1 x cols rowwise), v not a view of the
\* matrix, completes and leaves every sub-vector equal to its original plus
\* v; an adaptor -= v that follows restores the matrix exactly.
C2_AddThenSubtract ==
    (other.kind = "plain" /\ SubVectorShaped(M, cur.dir, other.val)) =>
        /\ cur.op = "+=" =>
              /\ pc # "aborted"
              /\ call.name = "return" => BroadcastOf("+=", M, M0, cur.dir, other.val)
        /\ (/\ cur.op = "-="
            /\ prev.op = "+="
            /\ prev.dir = cur.dir
            /\ call.name = "return") => M = Mprev

\* A rowwise += v then -= v has returned on a 2 x 2 matrix, with v non-zero.
C2_Witness ==
    /\ call.name = "return"
    /\ cur = [dir |-> Horizontal, op |-> "-="]
    /\ prev = [dir |-> Horizontal, op |-> "+="]
    /\ other.kind = "plain"
    /\ M.rows = 2
    /\ M.cols = 2
    /\ At(other.val, 0, 0) # At(other.val, 0, 1)
    /\ M0 # M
    /\ M = Mprev

\* C3: a broadcast assignment whose operand's size is not that of the
\* sub-vectors never returns, and a run that fails leaves the matrix as it
\* was when the operator was entered.
C3_MismatchRejected ==
    /\ pc = "aborted" => M = M0
    /\ call.name = "return" =>
          Size(OperandValue(M, other)) = CollapsedExtent(M, cur.dir)

\* C7: the sub-vectors are assigned in the order 0, 1, ..., count-1, each
\* once, count being the number of columns (colwise) or rows (rowwise); when
\* sub-vector j is assigned the earlier ones are fully updated and the later
\* ones untouched; the operator returns the underlying expression.
C7_AscendingOrder ==
    cur # NoAssign =>
        /\ visited = [n \in 1..Len(visited) |-> n - 1]
        /\ Len(visited) <= KeptExtent(M, cur.dir)
        /\ \A i \in 0..(M.rows - 1), k \in 0..(M.cols - 1) :
              LET sub == IF cur.dir = Vertical THEN k ELSE i
                  at == IF cur.dir = Vertical THEN <<i, 0>> ELSE <<0, k>>
              IN  IF sub >= Len(visited)
                  THEN At(M, i, k) = At(M0, i, k)
                  ELSE other.kind = "plain" =>
                         At(M, i, k) = CASE cur.op = "="  -> other.val.coeff[at]
                                         [] cur.op = "+=" -> At(M0, i, k) + other.val.coeff[at]
                                         [] cur.op = "-=" -> At(M0, i, k) - other.val.coeff[at]
        /\ call.name = "return" =>
              /\ Len(visited) = KeptExtent(M, cur.dir)
              /\ call.dir0 = "m_matrix"

\* Inside a colwise += on a 2 x 2 matrix: column 0 updated, column 1 not yet.
C7_Witness ==
    /\ pc = "loop"
    /\ cur = [dir |-> Vertical, op |-> "+="]
    /\ other.kind = "plain"
    /\ M.rows = 2
    /\ M.cols = 2
    /\ visited = <<0>>
    /\ At(M, 0, 0) # At(M0, 0, 0)
    /\ At(other.val, 1, 0) # 0

Min(a, b) == IF a <= b THEN a ELSE b

Max(a, b) == IF a >= b THEN a ELSE b

\* The least, the greatest and the product of the first n coefficients of
\* column k, and of row k, of m (n >= 1 for the least and the greatest).
RECURSIVE ColumnMin(_, _, _)
ColumnMin(m, k, n) ==
    IF n = 1 THEN At(m, 0, k) ELSE Min(At(m, n - 1, k), ColumnMin(m, k, n - 1))

RECURSIVE RowMin(_, _, _)
RowMin(m, k, n) ==
    IF n = 1 THEN At(m, k, 0) ELSE Min(At(m, k, n - 1), RowMin(m, k, n - 1))

RECURSIVE ColumnMax(_, _, _)
ColumnMax(m, k, n) ==
    IF n = 1 THEN At(m, 0, k) ELSE Max(At(m, n - 1, k), ColumnMax(m, k, n - 1))

RECURSIVE RowMax(_, _, _)
RowMax(m, k, n) ==
    IF n = 1 THEN At(m, k, 0) ELSE Max(At(m, k, n - 1), RowMax(m, k, n - 1))

RECURSIVE ColumnProd(_, _, _)
ColumnProd(m, k, n) == IF n = 0 THEN 1 ELSE At(m, n - 1, k) * ColumnProd(m, k, n - 1)

RECURSIVE RowProd(_, _, _)
RowProd(m, k, n) == IF n = 0 THEN 1 ELSE At(m, k, n - 1) * RowProd(m, k, n - 1)

\* The reduction of sub-vector k of m in direction dir.
ReductionOf(member, m, dir, k) ==
    CASE member = "sum" ->
            IF dir = Vertical THEN ColumnSum(m, k, m.rows) ELSE RowSum(m, k, m.cols)
      [] member = "count" ->
            IF dir = Vertical THEN ColumnCount(m, k, m.rows) ELSE RowCount(m, k, m.cols)
      [] member = "minCoeff" ->
            IF dir = Vertical THEN ColumnMin(m, k, m.rows) ELSE RowMin(m, k, m.cols)
      [] member = "maxCoeff" ->
            IF dir = Vertical THEN ColumnMax(m, k, m.rows) ELSE RowMax(m, k, m.cols)
      [] member = "prod" ->
            IF dir = Vertical THEN ColumnProd(m, k, m.rows) ELSE RowProd(m, k, m.cols)

\* C6: a coefficient read of a PartialReduxExpr, by (row, col) or by index,
\* returns the reduction of the sub-vector of the matrix as it is at the
\* read, whatever assignments happened since the expression was built.
C6_NoCaching ==
    /\ (call.name = "coeff" /\ pc # "aborted") =>
          rd = ReductionOf(redux.member, M, redux.dir,
                           IF redux.dir = Vertical THEN call.b ELSE call.a)
    /\ (call.name = "coeffIndex" /\ pc # "aborted") =>
          rd = ReductionOf(redux.member, M, redux.dir, call.a)

\* A read after a broadcast assignment that changed the reduction read.
C6_Witness ==
    /\ call.name = "coeffIndex"
    /\ nAssign = 1
    /\ redux = [member |-> "sum", dir |-> Horizontal]
    /\ rd # ReductionOf("sum", M0, Horizontal, call.a)
    /\ call.a = 1

\* C11: for a matrix with at least one row and one column, the minCoeff,
\* maxCoeff and prod partial reductions evaluate, are 1 x cols (colwise) or
\* rows x 1 (rowwise), and their coefficient k is the least element, the
\* greatest element and the product of the elements of sub-vector k; the
\* sum, minCoeff, maxCoeff and prod reductions of a 1 x 1 matrix, in either
\* direction, are that matrix.
C11_MinMaxProdOfSubVectors ==
    /\ (call.name \in {"minCoeff", "maxCoeff", "prod"} /\ M.rows > 0 /\ M.cols > 0) =>
          /\ pc # "aborted"
          /\ IF call.dir = Vertical
             THEN /\ res.rows = 1
                  /\ res.cols = M.cols
                  /\ \A k \in 0..(M.cols - 1) :
                         At(res, 0, k) = ReductionOf(call.name, M, Vertical, k)
             ELSE /\ res.rows = M.rows
                  /\ res.cols = 1
                  /\ \A k \in 0..(M.rows - 1) :
                         At(res, k, 0) = ReductionOf(call.name, M, Horizontal, k)
    /\ (call.name \in {"sum", "minCoeff", "maxCoeff", "prod"} /\ M.rows = 1 /\ M.cols = 1) =>
          res = M

\* A colwise maxCoeff of a 2 x 2 matrix whose first column holds its greatest
\* element above its least one and whose second column is zero.
C11_Witness ==
    /\ call.name = "maxCoeff"
    /\ call.dir = Vertical
    /\ M.rows = 2
    /\ M.cols = 2
    /\ At(M, 0, 0) = 2
    /\ At(M, 1, 0) = 0
    /\ At(res, 0, 0) = 2
    /\ At(res, 0, 1) = 0

\* Coefficient at of the operand o read from the matrix m: of the vector
\* itself, or of column o.idx or row o.idx of m.
OperandCoeff(m, o, at) ==
    CASE o.kind = "plain" -> o.val.coeff[at]
      [] o.kind = "col"   -> At(m, at[1], o.idx)
      [] o.kind = "row"   -> At(m, o.idx, at[2])

\* C12 as stated: a broadcast assignment that returns has combined every
\* sub-vector with the value the operand had when the operator was entered,
\* also when the operand is a column or a row of the matrix itself.
C12_Original ==
    call.name = "return" =>
        /\ SameShape(M, M0)
        /\ \A i \in 0..(M0.rows - 1), k \in 0..(M0.cols - 1) :
              LET at == IF cur.dir = Vertical THEN <<i, 0>> ELSE <<0, k>>
              IN  At(M, i, k) = ScalarOp(cur.op, At(M0, i, k), OperandCoeff(M0, other, at))

\* C12, amended: the operand is read again at every sub-vector.  A sub-vector
\* already assigned holds its original combined with the operand as it was
\* when that sub-vector was assigned: the operand's value on entry for a
\* plain vector, for operator=, and for the sub-vectors up to and including
\* the one the operand is a view of; the operand's value after its own
\* update (twice its value on entry for +=, zero for -=) for the sub-vectors
\* after it.
C12_OperandReadPerSubVector ==
    (pc = "loop" \/ call.name = "return") =>
        /\ SameShape(M, M0)
        /\ \A i \in 0..(M0.rows - 1), k \in 0..(M0.cols - 1) :
              LET at  == IF cur.dir = Vertical THEN <<i, 0>> ELSE <<0, k>>
                  sub == IF cur.dir = Vertical THEN k ELSE i
                  v0  == OperandCoeff(M0, other, at)
                  v   == IF other.kind = "plain" \/ cur.op = "=" \/ sub <= other.idx
                         THEN v0
                         ELSE IF cur.op = "+=" THEN 2 * v0 ELSE 0
              IN  sub < Len(visited) =>
                     /\ At(M, i, k) = ScalarOp(cur.op, At(M0, i, k), v)
                     /\ (other.kind # "plain" /\ sub > other.idx) =>
                            v = OperandCoeff(M, other, at)

\* M.colwise() += M.col(0) has returned on a 2 x 2 matrix with a non-zero
\* column 0: column 1 holds its original plus twice the original column 0.
C12_Witness ==
    /\ call.name = "return"
    /\ cur = [dir |-> Vertical, op |-> "+="]
    /\ other.kind = "col"
    /\ other.idx = 0
    /\ M.rows = 2
    /\ M.cols = 2
    /\ At(M0, 0, 0) = 2
    /\ At(M, 0, 0) = 4
    /\ At(M, 0, 1) = At(M0, 0, 1) + 4
    /\ At(M, 0, 1) # At(M0, 0, 1) + At(M0, 0, 0)

====
